---- MODULE Spec2Model ----
(***************************************************************************)
(* SlitherScale: the calibration-and-measurement session of the Measurer   *)
(* component (Svelte 5 / Konva variant, src/unnamed/part_001:678-1005).    *)
(*                                                                         *)
(* Numbers.  A JavaScript `number | null` is an optional: Null is <<>>     *)
(* and the number n is <<n>>.  Coordinates and reference lengths are       *)
(* integers.  Everything computed from them (Math.hypot, sums, quotients,  *)
(* products) is an IEEE 754 double, rounded after every operation as the   *)
(* processor rounds it, and toFixed prints the double's exact value.       *)
(*                                                                         *)
(* The Konva layer (circles, lines, z-order) and the stage height are      *)
(* presentation only and are not part of the state; the stage width and    *)
(* the background image are.  alert holds what the last event alerted, ev  *)
(* names the last event and reads holds what the reads of the read-out     *)
(* made since then have shown; none of them is read by any handler.        *)
(***************************************************************************)
EXTENDS Integers, Sequences, FiniteSets, Bags, TLC

\* ------------------------------------------------------------------------
\* Bounds of the model
\* ------------------------------------------------------------------------

\* longest measurement path that clicks may build
MaxMeasure == 2

\* longest measurement path in the round-trip setting
MaxRoundTrip == 3

\* most image decodes under way at the same time in the file setting
MaxDecodes == 2

\* most image decodes under way at the same time in the other settings
MaxLoads == 1

\* most reads of the read-out between one event and the next
MaxReads == 2

\* canvas positions at which the pointer clicks or touches
Points == { [x |-> 0, y |-> 0], [x |-> 30, y |-> 0], [x |-> 30, y |-> 40] }

\* values the reference-length number input can deliver through bind:value
\* (cleared, zero, negative, two positive lengths)
LengthInputs == { <<>>, <<0>>, <<-1>>, <<10>>, <<20>> }

\* canvas positions at which a touch may start
TouchPoints == { [x |-> 0, y |-> 0] }

\* widths the canvas container can have
ContainerWidths == { 800 }

\* units the unit buttons are pressed for: the initial one and another
ButtonUnits == { "in", "cm" }

\* reference lengths of the read-out setting
ViewLengths == { << >>, << 10 >> }

\* positions at which a touch starts in the touch setting
TouchStarts == { [x |-> 0, y |-> 0], [x |-> 30, y |-> 0] }

\* positions at which a touch ends there: where it started, exactly 5
\* pixels from there, or farther off
TapPoints == { [x |-> 0, y |-> 0], [x |-> 3, y |-> 4], [x |-> 30, y |-> 40] }

\* click positions of the file setting
PickPoints == { [x |-> 0, y |-> 0], [x |-> 30, y |-> 0] }

\* click positions of the round trip
RoundTripPoints ==
  { [x |-> 0, y |-> 0], [x |-> 100, y |-> 0], [x |-> 50, y |-> 0],
    [x |-> 50, y |-> 50] }

\* its reference length
RoundTripLengths == { << 10 >> }

\* reference lengths of the path setting: a positive and a negative one
PathLengths == { << 10 >>, << 0 - 1 >> }

\* reference lengths given to the two components side by side
VariantLengths == { << >>, << 10 >>, << 20 >> }

\* ------------------------------------------------------------------------
\* Program constants
\* ------------------------------------------------------------------------

VALID_TYPES == { "image/jpeg", "image/png", "image/webp" }

MAX_SIZE_MB == 25

UNIT_LABELS == [ in  |-> "inches",
                 cm  |-> "centimeters",
                 mm  |-> "millimeters",
                 fur |-> "furlongs" ]

unitKeys == DOMAIN UNIT_LABELS

\* files the user can pick: a good image exactly at the size limit, one of
\* a valid type whose contents do not decode, one of a wrong type, one a
\* byte too large
Files ==
  { [name |-> "a.jpg",    type |-> "image/jpeg", size |-> 26214400, decodes |-> TRUE],
    [name |-> "bad.webp", type |-> "image/webp", size |-> 1000,     decodes |-> FALSE],
    [name |-> "c.gif",    type |-> "image/gif",  size |-> 1000,     decodes |-> TRUE],
    [name |-> "big.jpg",  type |-> "image/jpeg", size |-> 26214401, decodes |-> TRUE] }

\* ------------------------------------------------------------------------
\* JavaScript values
\* ------------------------------------------------------------------------

Null == <<>>

\* truthiness of a `number | null` holding an integer: null and 0 are
\* falsy
Truthy(v) == v # Null /\ v[1] # 0

Abs(i) == IF i < 0 THEN 0 - i ELSE i

\* ------------------------------------------------------------------------
\* Natural numbers of any size (TLC's integers have 32 bits): sequences of
\* limbs in base 2^15, least significant first, no leading zero limb
\* ------------------------------------------------------------------------

LimbBase == 32768

Pow2 == << 1, 2, 4, 8, 16, 32, 64, 128, 256, 512, 1024, 2048, 4096, 8192,
           16384 >>

Limb(x, i) == IF i <= Len(x) THEN x[i] ELSE 0

RECURSIVE BigTrim(_)
BigTrim(x) ==
  IF x = << >> THEN x
  ELSE IF x[Len(x)] = 0 THEN BigTrim(SubSeq(x, 1, Len(x) - 1)) ELSE x

RECURSIVE BigFromInt(_)
BigFromInt(i) ==
  IF i = 0 THEN << >>
  ELSE << i % LimbBase >> \o BigFromInt(i \div LimbBase)

\* for numbers below 2^30
RECURSIVE BigToInt(_)
BigToInt(x) ==
  IF x = << >> THEN 0 ELSE x[1] + LimbBase * BigToInt(Tail(x))

RECURSIVE BigCmpAt(_, _, _)
BigCmpAt(x, y, i) ==
  IF i = 0 THEN 0
  ELSE IF x[i] < y[i] THEN 0 - 1
  ELSE IF x[i] > y[i] THEN 1
  ELSE BigCmpAt(x, y, i - 1)

\* -1, 0 or 1
BigCmp(x, y) ==
  IF Len(x) < Len(y) THEN 0 - 1
  ELSE IF Len(x) > Len(y) THEN 1
  ELSE BigCmpAt(x, y, Len(x))

\* limbs i and up of x + y + carry; sum is the sum at limb i
RECURSIVE BigAddAt(_, _, _, _)
BigAddAt(x, y, i, sum) ==
  IF i > Len(x) /\ i > Len(y)
  THEN IF sum = 0 THEN << >> ELSE << sum >>
  ELSE << sum % LimbBase >>
         \o BigAddAt(x, y, i + 1,
                     Limb(x, i + 1) + Limb(y, i + 1) + (sum \div LimbBase))

BigAdd(x, y) == BigAddAt(x, y, 1, Limb(x, 1) + Limb(y, 1))

\* limbs i and up of x - y; diff is the difference at limb i, borrow taken
RECURSIVE BigSubAt(_, _, _, _)
BigSubAt(x, y, i, diff) ==
  IF i > Len(x) THEN << >>
  ELSE << diff % LimbBase >>
         \o BigSubAt(x, y, i + 1,
                     Limb(x, i + 1) - Limb(y, i + 1)
                       - (IF diff < 0 THEN 1 ELSE 0))

\* x - y for x >= y
BigSub(x, y) == BigTrim(BigSubAt(x, y, 1, Limb(x, 1) - Limb(y, 1)))

\* limbs i and up of x * k + carry; prod is the product at limb i
RECURSIVE BigMulIntAt(_, _, _, _)
BigMulIntAt(x, k, i, prod) ==
  IF i > Len(x)
  THEN IF prod = 0 THEN << >> ELSE << prod >>
  ELSE << prod % LimbBase >>
         \o BigMulIntAt(x, k, i + 1,
                        Limb(x, i + 1) * k + (prod \div LimbBase))

\* x * k for 0 <= k < 2^15
BigMulInt(x, k) ==
  IF k = 0 THEN << >> ELSE BigMulIntAt(x, k, 1, Limb(x, 1) * k)

BigShlLimbs(x, n) ==
  IF x = << >> THEN x ELSE [i \in 1 .. n |-> 0] \o x

RECURSIVE BigMulAt(_, _, _)
BigMulAt(x, y, i) ==
  IF i > Len(y) THEN << >>
  ELSE BigAdd(BigShlLimbs(BigMulInt(x, y[i]), i - 1), BigMulAt(x, y, i + 1))

BigMul(x, y) == BigMulAt(x, y, 1)

\* x * 2^n
BigShl(x, n) == BigShlLimbs(BigMulInt(x, Pow2[(n % 15) + 1]), n \div 15)

\* quotient of x by k, 0 < k < 2^15, from the most significant limb down;
\* part is the remainder so far with limb i appended
RECURSIVE BigDivIntAt(_, _, _, _)
BigDivIntAt(x, k, i, part) ==
  IF i = 0 THEN << >>
  ELSE BigDivIntAt(x, k, i - 1, (part % k) * LimbBase + Limb(x, i - 1))
         \o << part \div k >>

BigDivInt(x, k) == BigTrim(BigDivIntAt(x, k, Len(x), Limb(x, Len(x))))

RECURSIVE BigModIntAt(_, _, _, _)
BigModIntAt(x, k, i, rem) ==
  IF i = 0 THEN rem
  ELSE BigModIntAt(x, k, i - 1, (rem * LimbBase + x[i]) % k)

BigModInt(x, k) == BigModIntAt(x, k, Len(x), 0)

\* floor(x / 2^n)
BigShr(x, n) ==
  IF n \div 15 >= Len(x) THEN << >>
  ELSE BigDivInt(SubSeq(x, (n \div 15) + 1, Len(x)), Pow2[(n % 15) + 1])

RECURSIVE IntBits(_)
IntBits(i) == IF i = 0 THEN 0 ELSE 1 + IntBits(i \div 2)

\* number of binary digits
BigBits(x) ==
  IF x = << >> THEN 0 ELSE 15 * (Len(x) - 1) + IntBits(x[Len(x)])

RECURSIVE IntTrailingZeros(_)
IntTrailingZeros(i) == IF i % 2 = 1 THEN 0 ELSE 1 + IntTrailingZeros(i \div 2)

\* number of zero bits at the low end of x > 0
RECURSIVE BigTrailingZerosAt(_, _)
BigTrailingZerosAt(x, i) ==
  IF x[i] = 0 THEN 15 + BigTrailingZerosAt(x, i + 1)
  ELSE IntTrailingZeros(x[i])

BigTrailingZeros(x) == BigTrailingZerosAt(x, 1)

BigIsOdd(x) == x # << >> /\ x[1] % 2 = 1

\* the largest d in lo .. hi with y * d <= r
RECURSIVE BigDigit(_, _, _, _)
BigDigit(r, y, lo, hi) ==
  IF lo = hi THEN lo
  ELSE IF BigCmp(BigMulInt(y, (lo + hi + 1) \div 2), r) <= 0
  THEN BigDigit(r, y, (lo + hi + 1) \div 2, hi)
  ELSE BigDigit(r, y, lo, ((lo + hi + 1) \div 2) - 1)

\* long division, one limb at a time: limbs i .. 1 of x are still to come,
\* q holds the limbs of the quotient found and r the remainder so far.
\* (An intermediate value is bound as the element of a one-element set, so
\* that it is computed once.)
RECURSIVE BigDivModAt(_, _, _, _, _), BigDivModLimb(_, _, _, _, _),
          BigDivModTake(_, _, _, _, _, _)
BigDivModAt(x, y, i, q, r) ==
  IF i = 0 THEN [q |-> BigTrim(q), r |-> r]
  ELSE CHOOSE res \in { BigDivModLimb(x, y, i, q, r2) :
                          r2 \in { BigTrim(<< x[i] >> \o r) } } : TRUE

BigDivModLimb(x, y, i, q, r) ==
  CHOOSE res \in { BigDivModTake(x, y, i, q, r, d) :
                     d \in { IF BigCmp(r, y) < 0 THEN 0
                             ELSE BigDigit(r, y, 1, LimbBase - 1) } } : TRUE

BigDivModTake(x, y, i, q, r, d) ==
  CHOOSE res \in { BigDivModAt(x, y, i - 1, q2, r2) :
                     q2 \in { << d >> \o q },
                     r2 \in { BigSub(r, BigMulInt(y, d)) } } : TRUE

\* quotient and remainder of x by y > 0
BigDivMod(x, y) ==
  IF Len(y) = 1
  THEN [q |-> BigDivInt(x, y[1]), r |-> BigFromInt(BigModInt(x, y[1]))]
  ELSE BigDivModAt(x, y, Len(x), << >>, << >>)

\* Newton's iteration from a guess g above the root, h being the next guess
RECURSIVE BigSqrtFrom(_, _), BigSqrtNext(_, _, _)
BigSqrtFrom(x, g) ==
  CHOOSE res \in { BigSqrtNext(x, g, h) :
                     h \in { BigShr(BigAdd(g, BigDivMod(x, g).q), 1) } } : TRUE

BigSqrtNext(x, g, h) ==
  IF BigCmp(h, g) >= 0 THEN g ELSE BigSqrtFrom(x, h)

\* floor of the square root
BigSqrt(x) ==
  IF x = << >> THEN x
  ELSE BigSqrtFrom(x, BigShl(<< 1 >>, (BigBits(x) + 1) \div 2))

\* the decimal digits of i
RECURSIVE Digits(_)
Digits(i) ==
  IF i < 10
  THEN <<"0", "1", "2", "3", "4", "5", "6", "7", "8", "9">>[i + 1]
  ELSE Digits(i \div 10) \o Digits(i % 10)

\* the decimal digits of x, three at a time from the low end
RECURSIVE BigDigits(_)
BigDigits(x) ==
  IF BigBits(x) <= 30 THEN Digits(BigToInt(x))
  ELSE BigDigits(BigDivInt(x, 1000))
         \o SubSeq(Digits(1000 + BigModInt(x, 1000)), 2, 4)

\* ------------------------------------------------------------------------
\* JavaScript numbers: IEEE 754 doubles
\* ------------------------------------------------------------------------

\* A number is NaN, an infinity, or s * m * 2^e with s the sign, m odd and
\* below 2^53 (m = << >>, e = 0 for zero, whose sign is not kept: nothing
\* the component does tells -0 from 0).  Each operation rounds its exact
\* result to the nearest such number, a tie to the even m.  Exponents are
\* not limited: the component's values stay far from 2^1024 and 2^-1022.

F64Zero == [k |-> "num", s |-> 1, m |-> << >>, e |-> 0]

F64NaN == [k |-> "nan", s |-> 1, m |-> << >>, e |-> 0]

F64Inf(s) == [k |-> "inf", s |-> s, m |-> << >>, e |-> 0]

\* s * n * 2^e for n > 0 with z zero bits at its low end
F64Odd(s, n, e, z) == [k |-> "num", s |-> s, m |-> BigShr(n, z), e |-> e + z]

\* s * n * 2^e, n of at most 53 bits
F64Exact(s, n, e) ==
  IF n = << >> THEN F64Zero ELSE F64Odd(s, n, e, BigTrailingZeros(n))

\* s * (q or q + 1) * 2^e: q + 1 if what was cut off q compares (c) above
\* the half, or equals the half and q is odd
F64RoundUp(s, q, e, c) ==
  F64Exact(s, IF c > 0 \/ (c = 0 /\ BigIsOdd(q)) THEN BigAdd(q, << 1 >>)
              ELSE q, e)

\* s * n * 2^e with the low `cut` bits of n rounded away, q being the rest
F64RoundCut(s, n, e, cut, q) ==
  F64RoundUp(s, q, e + cut,
             IF cut = 0 THEN 0 - 1
             ELSE BigCmp(BigSub(n, BigShl(q, cut)), BigShl(<< 1 >>, cut - 1)))

F64RoundAt(s, n, e, cut) == F64RoundCut(s, n, e, cut, BigShr(n, cut))

\* s * n * 2^e rounded to 53 bits
F64Round(s, n, e) ==
  F64RoundAt(s, n, e, IF BigBits(n) <= 53 THEN 0 ELSE BigBits(n) - 53)

F64FromInt(i) == F64Exact(IF i < 0 THEN 0 - 1 ELSE 1, BigFromInt(Abs(i)), 0)

F64IsZero(a) == a.k = "num" /\ a.m = << >>

\* truthiness of a `number | null` holding a double: null, 0 and NaN are
\* falsy
NumberTruthy(v) == v \notin { Null, << F64Zero >>, << F64NaN >> }

F64Neg(a) ==
  IF a.k = "nan" \/ F64IsZero(a) THEN a ELSE [a EXCEPT !.s = 0 - a.s]

\* sa * x * 2^e + sb * y * 2^e, c comparing x with y
F64AddAligned(sa, x, sb, y, e, c) ==
  F64Round(IF sa = sb \/ c > 0 THEN sa ELSE sb,
           IF sa = sb THEN BigAdd(x, y)
           ELSE IF c > 0 THEN BigSub(x, y) ELSE BigSub(y, x),
           e)

F64AddAt(a, b, e) ==
  F64AddAligned(a.s, BigShl(a.m, a.e - e), b.s, BigShl(b.m, b.e - e), e,
                IF a.s = b.s THEN 0
                ELSE BigCmp(BigShl(a.m, a.e - e), BigShl(b.m, b.e - e)))

F64Add(a, b) ==
  IF a.k = "nan" \/ b.k = "nan" THEN F64NaN
  ELSE IF a.k = "inf"
  THEN IF b.k = "inf" /\ b.s # a.s THEN F64NaN ELSE a
  ELSE IF b.k = "inf" THEN b
  ELSE IF F64IsZero(a) THEN b
  ELSE IF F64IsZero(b) THEN a
  ELSE F64AddAt(a, b, IF a.e < b.e THEN a.e ELSE b.e)

F64Sub(a, b) == F64Add(a, F64Neg(b))

F64Mul(a, b) ==
  IF a.k = "nan" \/ b.k = "nan" THEN F64NaN
  ELSE IF a.k = "inf" \/ b.k = "inf"
  THEN IF F64IsZero(a) \/ F64IsZero(b) THEN F64NaN ELSE F64Inf(a.s * b.s)
  ELSE IF F64IsZero(a) \/ F64IsZero(b) THEN F64Zero
  ELSE F64Round(a.s * b.s, BigMul(a.m, b.m), a.e + b.e)

\* s * 2^e * (twice the quotient d.q, and one more if a remainder d.r is
\* left)
F64Sticky(s, d, e) ==
  F64Round(s, BigAdd(BigAdd(d.q, d.q),
                     IF d.r = << >> THEN << >> ELSE << 1 >>), e)

\* the quotient is taken to 56 bits or more, and one more bit tells
\* whether anything is left
F64DivAt(a, b, shift) ==
  F64Sticky(a.s * b.s, BigDivMod(BigShl(a.m, shift), b.m),
            a.e - b.e - shift - 1)

F64Div(a, b) ==
  IF a.k = "nan" \/ b.k = "nan" THEN F64NaN
  ELSE IF a.k = "inf"
  THEN IF b.k = "inf" THEN F64NaN ELSE F64Inf(a.s * b.s)
  ELSE IF b.k = "inf" THEN F64Zero
  ELSE IF F64IsZero(b)
  THEN IF F64IsZero(a) THEN F64NaN ELSE F64Inf(a.s)
  ELSE IF F64IsZero(a) THEN F64Zero
  ELSE F64DivAt(a, b, 56 + BigBits(b.m))

\* the root r of n and what is left of n
F64SqrtLeft(n, r) == [q |-> r, r |-> BigSub(n, BigMul(r, r))]

F64SqrtOf(n, e) == F64Sticky(1, F64SqrtLeft(n, BigSqrt(n)), e)

\* the significand is shifted by 112 or 113 bits, to an even exponent
F64SqrtAt(a, shift) ==
  F64SqrtOf(BigShl(a.m, shift), ((a.e - shift) \div 2) - 1)

F64Sqrt(a) ==
  IF a.k = "nan" THEN F64NaN
  ELSE IF F64IsZero(a) THEN F64Zero
  ELSE IF a.s < 0 THEN F64NaN
  ELSE IF a.k = "inf" THEN a
  ELSE F64SqrtAt(a, 112 + ((a.e - 112) % 2))

\* a < b
F64Less(a, b) ==
  /\ a.k # "nan"
  /\ b.k # "nan"
  /\ a # b
  /\ IF a.k = "inf" THEN a.s < 0
     ELSE IF b.k = "inf" THEN b.s > 0
     ELSE F64Sub(a, b).s < 0

\* the digits d of a number of hundredths, a point before the last two
F64Point(d) ==
  SubSeq(d, 1, Len(d) - 2) \o "." \o SubSeq(d, Len(d) - 1, Len(d))

F64Pad(d) == IF Len(d) = 1 THEN "00" \o d ELSE IF Len(d) = 2 THEN "0" \o d ELSE d

\* n / 2^cut to the nearest integer, q being its integer part and the
\* larger one taken of two
F64Nearest(n, cut, q) ==
  IF cut = 0 THEN q
  ELSE IF BigCmp(BigSub(n, BigShl(q, cut)), BigShl(<< 1 >>, cut - 1)) >= 0
  THEN BigAdd(q, << 1 >>)
  ELSE q

F64Hundredths(n, e) ==
  IF e >= 0 THEN BigShl(n, e) ELSE F64Nearest(n, 0 - e, BigShr(n, 0 - e))

\* Number.prototype.toFixed(2): the integer n with n / 100 nearest the
\* number's magnitude, the larger one of two, printed with a point before
\* its last two digits (for magnitudes below 10^21)
F64ToFixed2(a) ==
  IF a.k = "nan" THEN "NaN"
  ELSE IF a.k = "inf" THEN IF a.s > 0 THEN "Infinity" ELSE "-Infinity"
  ELSE (IF a.s < 0 THEN "-" ELSE "")
       \o F64Point(F64Pad(BigDigits(F64Hundredths(BigMulInt(a.m, 100), a.e))))

F64Square(a) == F64Mul(a, a)

\* the loop of Math.hypot over its arguments' magnitudes, from the i-th on:
\* each is divided by the largest, its square is added to the sum with
\* Kahan's compensation
RECURSIVE HypotSum(_, _, _, _, _), HypotSummand(_, _, _, _, _),
          HypotPreliminary(_, _, _, _, _, _)
HypotSum(values, i, max, sum, compensation) ==
  IF i > Len(values) THEN sum
  ELSE CHOOSE res \in
         { HypotSummand(values, i, max, sum, summand) :
             summand \in { F64Sub(F64Square(F64Div(values[i], max)),
                                  compensation) } } : TRUE

HypotSummand(values, i, max, sum, summand) ==
  CHOOSE res \in { HypotPreliminary(values, i, max, sum, summand, preliminary) :
                     preliminary \in { F64Add(sum, summand) } } : TRUE

HypotPreliminary(values, i, max, sum, summand, preliminary) ==
  CHOOSE res \in
    { HypotSum(values, i + 1, max, preliminary, compensation) :
        compensation \in { F64Sub(F64Sub(preliminary, sum), summand) } } : TRUE

HypotOf(values, max) ==
  IF F64IsZero(max) THEN F64Zero
  ELSE F64Mul(F64Sqrt(HypotSum(values, 1, max, F64Zero, F64Zero)), max)

HypotMax(x, y) == HypotOf(<< x, y >>, IF F64Less(x, y) THEN y ELSE x)

\* Math.hypot of two integers, as V8 computes it: the arguments' magnitudes
\* are divided by the larger one, their squares are added with Kahan's
\* compensation, and the square root of the sum is scaled back
MathHypot(dx, dy) == HypotMax(F64FromInt(Abs(dx)), F64FromInt(Abs(dy)))

\* ------------------------------------------------------------------------
\* Results kept in tables
\* ------------------------------------------------------------------------

\* The arithmetic above is exact and slow.  What it yields on the values
\* the specifications below can reach is computed once and looked up;
\* each operator computes directly whatever its table does not hold.

\* the function f with every value worked out (TLC would otherwise work
\* out f[x] anew each time it is asked for)
Table(f) == f @@ << >>

\* f[x] where the table f holds it, and else the value worked out directly
Cached(f, x, direct) == IF x \in DOMAIN f THEN f[x] ELSE direct

Range(f) == { f[x] : x \in DOMAIN f }

\* positions, reference lengths and longest measurement path of each
\* specification
Settings ==
  { [points  |-> Points \cup PickPoints,
     lengths |-> LengthInputs \cup VariantLengths,
     longest |-> MaxMeasure],
    [points  |-> Points \cup TouchPoints \cup TouchStarts \cup TapPoints,
     lengths |-> ViewLengths,
     longest |-> MaxMeasure],
    [points  |-> Points,
     lengths |-> PathLengths,
     longest |-> MaxRoundTrip],
    [points  |-> RoundTripPoints,
     lengths |-> RoundTripLengths,
     longest |-> MaxRoundTrip] }

Offsets(g) ==
  { << Abs(pq[1].x - pq[2].x), Abs(pq[1].y - pq[2].y) >> :
      pq \in g.points \X g.points }

HypotTable ==
  Table([o \in UNION { Offsets(g) : g \in Settings }
           |-> MathHypot(o[1], o[2])])

\* Math.hypot(dx, dy)
Hypot(dx, dy) ==
  Cached(HypotTable, << Abs(dx), Abs(dy) >>, MathHypot(dx, dy))

\* points.slice(1).reduce(...) from segment i - 1 on, total being the sum
\* so far
RECURSIVE SumSegments(_, _, _)
SumSegments(points, i, total) ==
  IF i > Len(points) THEN total
  ELSE SumSegments(points, i + 1,
                   F64Add(total, Hypot(points[i].x - points[i - 1].x,
                                       points[i].y - points[i - 1].y)))

PathsOf(g) == UNION { [1 .. n -> g.points] : n \in 0 .. g.longest }

TotalTable ==
  Table([path \in UNION { PathsOf(g) : g \in Settings }
           |-> SumSegments(path, 2, F64Zero)])

\* mutant: the straight line from the first point to the last
calculateTotalDistance_EndToEnd(points) ==
  IF Len(points) < 2 THEN F64Zero
  ELSE Hypot(points[Len(points)].x - points[1].x,
             points[Len(points)].y - points[1].y)

calculateTotalDistance(points) ==
  Cached(TotalTable, points, SumSegments(points, 2, F64Zero))

\* the pairs of a reference length and the distance of two reference points
LengthsAndDistances(g) ==
  { F64FromInt(l[1]) : l \in { v \in g.lengths : Truthy(v) } }
    \X { TotalTable[path] : path \in [1 .. 2 -> g.points] }

DivTable ==
  Table([ab \in UNION { LengthsAndDistances(g) : g \in Settings }
           |-> F64Div(ab[1], ab[2])])

\* a / b
Quotient(a, b) == Cached(DivTable, << a, b >>, F64Div(a, b))

\* the pairs of the length of a path and a scale factor
TotalsAndFactors(g) ==
  { TotalTable[path] : path \in PathsOf(g) }
    \X { DivTable[ld] : ld \in LengthsAndDistances(g) }

MulTable ==
  Table([ab \in UNION { TotalsAndFactors(g) : g \in Settings }
           |-> F64Mul(ab[1], ab[2])])

\* a * b
Product(a, b) == Cached(MulTable, << a, b >>, F64Mul(a, b))

FixedTable ==
  Table([a \in Range(MulTable) |-> F64ToFixed2(a)])

\* a.toFixed(2)
ToFixed2(a) == Cached(FixedTable, a, F64ToFixed2(a))

\* ------------------------------------------------------------------------
\* State
\* ------------------------------------------------------------------------

VARIABLES
  currentPathType,     \* "reference" | "measurement"
  currentUnit,         \* a key of UNIT_LABELS
  referencePoints,     \* sequence of points
  measurementPoints,   \* sequence of points
  referenceLength,     \* number | null
  touchStartPosition,  \* pointer position at the last touchstart
  fileInputValue,      \* fileInput.value: "" or the name of the chosen file
  backgroundImage,     \* "" (null) or the name of the image on the layer
  stageWidth,          \* stage.width()
  pending,             \* bag of the files whose loadImageFile promise is
                       \* unsettled, one copy for each call under way
  alert,               \* message of the alert raised by the last event, or ""
  ev,                  \* the event handled last, or "read" after a read
  cached,              \* the state of the component of src/lib/Measurer.svelte
  editedAfterCalibration, \* the reference length was edited since cached
                          \* got its second reference point
  reads                \* what each read of the "Measured length" block made
                       \* since the last event has shown, in order

session == << currentPathType, currentUnit, referencePoints,
              measurementPoints, referenceLength >>

vars == << currentPathType, currentUnit, referencePoints, measurementPoints,
           referenceLength, touchStartPosition, fileInputValue,
           backgroundImage, stageWidth, pending, alert, ev, cached,
           editedAfterCalibration, reads >>

\* the second component and what is recorded about it and about the reads
variant == << cached, editedAfterCalibration, reads >>

\* ------------------------------------------------------------------------
\* Derived values
\* ------------------------------------------------------------------------

\* mutant: the length is multiplied by the pixel distance, not divided
ScaleFactorOf_Multiplied(refPts, refLen) ==
  IF Len(refPts) = 2 /\ Truthy(refLen)
  THEN << Product(F64FromInt(refLen[1]), calculateTotalDistance(refPts)) >>
  ELSE Null

ScaleFactorOf(refPts, refLen) ==
  IF Len(refPts) = 2 /\ Truthy(refLen)
  THEN << Quotient(F64FromInt(refLen[1]), calculateTotalDistance(refPts)) >>
  ELSE Null

scaleFactor == ScaleFactorOf(referencePoints, referenceLength)

\* mutant: the pixel length is shown, the scale factor is not applied
MeasurementValueOf_Unscaled(sf, measPts) ==
  IF NumberTruthy(sf) /\ Len(measPts) > 1
  THEN << ToFixed2(calculateTotalDistance(measPts)) >>
  ELSE Null

\* the number toFixed is applied to, or null
MeasurementNumberOf(sf, measPts) ==
  IF NumberTruthy(sf) /\ Len(measPts) > 1
  THEN << Product(calculateTotalDistance(measPts), sf[1]) >>
  ELSE Null

\* number.toFixed(2), or null
FixedOf(number) == IF number # Null THEN << ToFixed2(number[1]) >> ELSE Null

MeasurementValueOf(sf, measPts) == FixedOf(MeasurementNumberOf(sf, measPts))

currentMeasurementNumber ==
  MeasurementNumberOf(scaleFactor, measurementPoints)

currentMeasurementValue == MeasurementValueOf(scaleFactor, measurementPoints)

\* the "Measured length" block of the template
MeasuredLengthOf(value, unit, refLen, refPts) ==
  IF value # Null
  THEN [kind |-> "result", value |-> value[1], label |-> UNIT_LABELS[unit]]
  ELSE [kind |-> "hint",
        text |-> IF Truthy(refLen)
                 THEN IF Len(refPts) < 2 THEN "Add reference points"
                                         ELSE "Add measurement points"
                 ELSE "Set the reference length"]

currentMeasurement ==
  MeasuredLengthOf(currentMeasurementValue, currentUnit,
                   referenceLength, referencePoints)

SetReferenceLength   == [kind |-> "hint", text |-> "Set the reference length"]
AddReferencePoints   == [kind |-> "hint", text |-> "Add reference points"]
AddMeasurementPoints == [kind |-> "hint", text |-> "Add measurement points"]

\* ------------------------------------------------------------------------
\* Initial state
\* ------------------------------------------------------------------------

\* src/lib/Measurer.svelte after its declarations have run
cached_Init ==
  [currentPathType    |-> "reference",
   referencePoints    |-> << >>,
   measurementPoints  |-> << >>,
   scale              |-> [factor |-> Null, referenceLength |-> Null],
   currentMeasurement |-> [value |-> Null]]

InitWith(widths) ==
  /\ currentPathType = "reference"
  /\ currentUnit = "in"
  /\ referencePoints = << >>
  /\ measurementPoints = << >>
  /\ referenceLength = Null
  /\ touchStartPosition = [x |-> 0, y |-> 0]
  /\ fileInputValue = ""
  /\ backgroundImage = ""
  /\ stageWidth \in widths
  /\ pending = EmptyBag
  /\ alert = ""
  /\ ev = "mount"
  /\ cached = cached_Init
  /\ editedAfterCalibration = FALSE
  /\ reads = << >>

Init == InitWith(ContainerWidths)

\* ------------------------------------------------------------------------
\* Handlers
\* ------------------------------------------------------------------------

\* mutant: the reference length is not asked for
handleReferencePoint_NoLengthCheck(p) ==
  IF Len(referencePoints) >= 2
  THEN /\ alert' = ""
       /\ UNCHANGED session
  ELSE /\ referencePoints' = Append(referencePoints, p)
       /\ currentPathType' = IF Len(referencePoints) + 1 = 2
                             THEN "measurement" ELSE currentPathType
       /\ alert' = ""
       /\ UNCHANGED << currentUnit, measurementPoints, referenceLength >>

\* mutant: a third reference point is accepted
handleReferencePoint_NoCap(p) ==
  IF ~Truthy(referenceLength)
  THEN /\ alert' = "First, you must supply a reference length."
       /\ UNCHANGED session
  ELSE /\ referencePoints' = Append(referencePoints, p)
       /\ currentPathType' = IF Len(referencePoints) + 1 = 2
                             THEN "measurement" ELSE currentPathType
       /\ alert' = ""
       /\ UNCHANGED << currentUnit, measurementPoints, referenceLength >>

\* mutant: the mode switches at the first reference point
handleReferencePoint_EarlySwitch(p) ==
  IF Len(referencePoints) >= 2
  THEN /\ alert' = ""
       /\ UNCHANGED session
  ELSE IF ~Truthy(referenceLength)
  THEN /\ alert' = "First, you must supply a reference length."
       /\ UNCHANGED session
  ELSE /\ referencePoints' = Append(referencePoints, p)
       /\ currentPathType' = "measurement"
       /\ alert' = ""
       /\ UNCHANGED << currentUnit, measurementPoints, referenceLength >>

\* mutant: the list takes a third point before the mode switches
handleReferencePoint_ThreePoints(p) ==
  IF Len(referencePoints) >= 3
  THEN /\ alert' = ""
       /\ UNCHANGED session
  ELSE IF ~Truthy(referenceLength)
  THEN /\ alert' = "First, you must supply a reference length."
       /\ UNCHANGED session
  ELSE /\ referencePoints' = Append(referencePoints, p)
       /\ currentPathType' = IF Len(referencePoints) + 1 = 3
                             THEN "measurement" ELSE currentPathType
       /\ alert' = ""
       /\ UNCHANGED << currentUnit, measurementPoints, referenceLength >>

\* mutant: recording a reference point clears the reference length
handleReferencePoint_ConsumesLength(p) ==
  IF Len(referencePoints) >= 2
  THEN /\ alert' = ""
       /\ UNCHANGED session
  ELSE IF ~Truthy(referenceLength)
  THEN /\ alert' = "First, you must supply a reference length."
       /\ UNCHANGED session
  ELSE /\ referencePoints' = Append(referencePoints, p)
       /\ currentPathType' = IF Len(referencePoints) + 1 = 2
                             THEN "measurement" ELSE currentPathType
       /\ referenceLength' = IF Len(referencePoints) + 1 = 2
                             THEN Null ELSE referenceLength
       /\ alert' = ""
       /\ UNCHANGED << currentUnit, measurementPoints >>

handleReferencePoint(p) ==
  IF Len(referencePoints) >= 2
  THEN /\ alert' = ""
       /\ UNCHANGED session
  ELSE IF ~Truthy(referenceLength)
  THEN /\ alert' = "First, you must supply a reference length."
       /\ UNCHANGED session
  ELSE /\ referencePoints' = Append(referencePoints, p)
       /\ currentPathType' = IF Len(referencePoints) + 1 = 2
                             THEN "measurement" ELSE currentPathType
       /\ alert' = ""
       /\ UNCHANGED << currentUnit, measurementPoints, referenceLength >>

\* mutant: the new point is put at the head of the path
handleMeasurementPoint_Prepends(p) ==
  IF ~NumberTruthy(scaleFactor)
  THEN /\ alert' = ""
       /\ UNCHANGED session
  ELSE /\ measurementPoints' = << p >> \o measurementPoints
       /\ alert' = ""
       /\ UNCHANGED << currentPathType, currentUnit, referencePoints,
                       referenceLength >>

handleMeasurementPoint(p) ==
  IF ~NumberTruthy(scaleFactor)
  THEN /\ alert' = ""
       /\ UNCHANGED session
  ELSE /\ measurementPoints' = Append(measurementPoints, p)
       /\ alert' = ""
       /\ UNCHANGED << currentPathType, currentUnit, referencePoints,
                       referenceLength >>

\* etype is the Konva event type, pos what stage.getPointerPosition()
\* returns: Null or << point >>
handleCanvasClick(etype, pos) ==
  IF fileInputValue = ""
  THEN /\ alert' = ""
       /\ UNCHANGED session
  ELSE IF pos = Null
  THEN /\ alert' = ""
       /\ UNCHANGED session
  ELSE IF /\ etype = "tap"
          /\ F64Less(F64FromInt(5),
                     Hypot(pos[1].x - touchStartPosition.x,
                           pos[1].y - touchStartPosition.y))
  THEN /\ alert' = ""
       /\ UNCHANGED session
  ELSE IF currentPathType = "reference"
  THEN handleReferencePoint(pos[1])
  ELSE handleMeasurementPoint(pos[1])

\* mutant: the reset leaves the click mode as it is
clearCanvas_KeepsMode ==
  /\ referencePoints' = << >>
  /\ measurementPoints' = << >>
  /\ referenceLength' = Null
  /\ UNCHANGED << currentUnit, currentPathType >>

\* mutant: the reference length survives the reset
clearCanvas_KeepsLength ==
  /\ referencePoints' = << >>
  /\ measurementPoints' = << >>
  /\ currentPathType' = "reference"
  /\ UNCHANGED << currentUnit, referenceLength >>

\* mutant: the measurement points survive the reset
clearCanvas_KeepsMeasurement ==
  /\ referencePoints' = << >>
  /\ currentPathType' = "reference"
  /\ referenceLength' = Null
  /\ UNCHANGED << currentUnit, measurementPoints >>

clearCanvas ==
  /\ referencePoints' = << >>
  /\ measurementPoints' = << >>
  /\ currentPathType' = "reference"
  /\ referenceLength' = Null
  /\ UNCHANGED currentUnit

\* the image is laid out at the container's current width w
applyImageToCanvas(name, w) ==
  /\ backgroundImage' = name
  /\ stageWidth' = w

\* mutant: a file of exactly the maximum size is rejected
FileIsValid_BelowLimit(file) ==
  /\ file # Null
  /\ file[1].type \in VALID_TYPES
  /\ ~(file[1].size >= MAX_SIZE_MB * 1024 * 1024)

FileIsValid(file) ==
  /\ file # Null
  /\ file[1].type \in VALID_TYPES
  /\ ~(file[1].size > MAX_SIZE_MB * 1024 * 1024)

\* ------------------------------------------------------------------------
\* Handlers of src/lib/Measurer.svelte
\* ------------------------------------------------------------------------

\* The older component keeps the scale factor and the measured value as
\* stored fields.  Its handlers are functions from its state c to its next
\* state; what they alert is not recorded a second time.

cached_handleReferencePoint(c, p) ==
  IF Len(c.referencePoints) >= 2 THEN c
  ELSE IF ~Truthy(c.scale.referenceLength) THEN c
  ELSE LET points == Append(c.referencePoints, p)
       IN  IF Len(points) = 2
           THEN [c EXCEPT
                   !.referencePoints = points,
                   !.scale.factor =
                      << Quotient(F64FromInt(c.scale.referenceLength[1]),
                                  Hypot(points[2].x - points[1].x,
                                        points[2].y - points[1].y)) >>,
                   !.currentPathType = "measurement"]
           ELSE [c EXCEPT !.referencePoints = points]

cached_handleMeasurementPoint(c, p) ==
  IF ~NumberTruthy(c.scale.factor) THEN c
  ELSE LET points == Append(c.measurementPoints, p)
       IN  IF Len(points) > 1
           THEN [c EXCEPT
                   !.measurementPoints = points,
                   !.currentMeasurement.value =
                      << ToFixed2(Product(calculateTotalDistance(points),
                                          c.scale.factor[1])) >>]
           ELSE [c EXCEPT !.measurementPoints = points]

\* both components are mounted on the same page: file input and touch
\* start are those of the state above
cached_handleCanvasClick(c, etype, pos) ==
  IF fileInputValue = "" THEN c
  ELSE IF pos = Null THEN c
  ELSE IF /\ etype = "tap"
          /\ F64Less(F64FromInt(5),
                     Hypot(pos[1].x - touchStartPosition.x,
                           pos[1].y - touchStartPosition.y))
  THEN c
  ELSE IF c.currentPathType = "reference"
  THEN cached_handleReferencePoint(c, pos[1])
  ELSE cached_handleMeasurementPoint(c, pos[1])

\* mutant: the reset leaves the stored value behind
cached_clearCanvas_KeepsValue(c) ==
  [c EXCEPT !.referencePoints = << >>,
            !.measurementPoints = << >>,
            !.currentPathType = "reference",
            !.scale.factor = Null,
            !.scale.referenceLength = Null]

cached_clearCanvas(c) ==
  [c EXCEPT !.referencePoints = << >>,
            !.measurementPoints = << >>,
            !.currentPathType = "reference",
            !.scale.factor = Null,
            !.scale.referenceLength = Null,
            !.currentMeasurement.value = Null]

\* the "Total Length" block of its template; a stored value is a string
\* of at least four characters, so it is truthy iff it is not null
cached_TotalLength ==
  IF cached.currentMeasurement.value # Null
  THEN [kind |-> "result", value |-> cached.currentMeasurement.value[1],
        label |-> UNIT_LABELS[currentUnit]]
  ELSE [kind |-> "hint",
        text |-> IF Truthy(cached.scale.referenceLength)
                 THEN IF Len(cached.referencePoints) < 2
                      THEN "Add reference points"
                      ELSE "Add measurement points"
                 ELSE "Set the reference length"]

\* event types for which initializeCanvas registers handleCanvasClick
StageClickEvents == { "click" }

\* ------------------------------------------------------------------------
\* Events
\* ------------------------------------------------------------------------

\* Each event takes the set its input is drawn from.

\* stage "click": the pointer is at p (Konva records the pointer position
\* before it fires the event)
CanvasClickUpTo(points, maxMeasure) ==
  \E etype \in StageClickEvents, p \in points :
    /\ \/ currentPathType = "reference"
       \/ Len(measurementPoints) < maxMeasure
    /\ handleCanvasClick(etype, << p >>)
    /\ ev' = "click"
    /\ UNCHANGED << touchStartPosition, fileInputValue, backgroundImage,
                    stageWidth, pending >>

CanvasClick(points) == CanvasClickUpTo(points, MaxMeasure)

\* stage "tap", Konva's event for a finished touch at p: it goes to
\* handleCanvasClick only if that is registered for it
StageTap(p) ==
  /\ IF "tap" \in StageClickEvents
     THEN handleCanvasClick("tap", << p >>)
     ELSE /\ alert' = ""
          /\ UNCHANGED session
  /\ ev' = "tap"
  /\ UNCHANGED << touchStartPosition, fileInputValue, backgroundImage,
                  stageWidth, pending >>

Tap(points) == \E p \in points : StageTap(p)

\* stage "touchstart": handleTouchStart
TouchStart(points) ==
  \E p \in points :
    /\ touchStartPosition' = p
    /\ alert' = ""
    /\ ev' = "touchstart"
    /\ UNCHANGED << session, fileInputValue, backgroundImage, stageWidth,
                    pending >>

\* the reference length input delivers a new value (bind:value)
InputReferenceLength(values) ==
  \E v \in values :
    /\ v # referenceLength
    /\ referenceLength' = v
    /\ alert' = ""
    /\ ev' = "input"
    /\ UNCHANGED << currentPathType, currentUnit, referencePoints,
                    measurementPoints, touchStartPosition, fileInputValue,
                    backgroundImage, stageWidth, pending >>

\* mutant: choosing a unit starts the measurement path afresh
SelectUnit_ClearsPath(units) ==
  \E unit \in units :
    /\ currentUnit' = unit
    /\ measurementPoints' = << >>
    /\ alert' = ""
    /\ ev' = "unit"
    /\ UNCHANGED << currentPathType, referencePoints,
                    referenceLength, touchStartPosition, fileInputValue,
                    backgroundImage, stageWidth, pending >>

\* one of the unit buttons is clicked
SelectUnit(units) ==
  \E unit \in units :
    /\ currentUnit' = unit
    /\ alert' = ""
    /\ ev' = "unit"
    /\ UNCHANGED << currentPathType, referencePoints, measurementPoints,
                    referenceLength, touchStartPosition, fileInputValue,
                    backgroundImage, stageWidth, pending >>

\* the Reset button
Reset ==
  /\ clearCanvas
  /\ alert' = ""
  /\ ev' = "reset"
  /\ UNCHANGED << touchStartPosition, fileInputValue, backgroundImage,
                  stageWidth, pending >>

\* mutant: the resize rescales the stored x coordinates to the new width
Resize_ScalesPoints(widths) ==
  \E w \in widths :
    /\ stageWidth' = w
    /\ referencePoints' =
         [i \in DOMAIN referencePoints |->
            [x |-> (referencePoints[i].x * w) \div stageWidth,
             y |-> referencePoints[i].y]]
    /\ measurementPoints' =
         [i \in DOMAIN measurementPoints |->
            [x |-> (measurementPoints[i].x * w) \div stageWidth,
             y |-> measurementPoints[i].y]]
    /\ alert' = ""
    /\ ev' = "resize"
    /\ UNCHANGED << currentPathType, currentUnit, referenceLength,
                    touchStartPosition, fileInputValue, backgroundImage,
                    pending >>

\* window "resize": handleResize
Resize(widths) ==
  \E w \in widths :
    /\ stageWidth' = w
    /\ alert' = ""
    /\ ev' = "resize"
    /\ UNCHANGED << session, touchStartPosition, fileInputValue,
                    backgroundImage, pending >>

\* handleFileSelect up to its await, for the file the browser has put into
\* the input (Null: none).  Every call that passes the checks starts a
\* decode of its own, also of a file that is being decoded already.
handleFileSelect(file) ==
  IF ~FileIsValid(file)
  THEN /\ fileInputValue' = ""
       /\ alert' = IF file # Null THEN "File too large (max 25MB)"
                                  ELSE "Invalid file type"
       /\ UNCHANGED pending
  ELSE /\ fileInputValue' = file[1].name
       /\ pending' = pending (+) SetToBag({ file[1].name })
       /\ alert' = ""

\* file input "change": the browser fires the event only when the choice
\* changes the input's value.  A file that passes the checks is chosen
\* only while fewer than `most` decodes are under way.
FileSelect(files, most) ==
  \E file \in { Null } \cup { << f >> : f \in files } :
    /\ IF file = Null THEN fileInputValue # ""
                      ELSE fileInputValue # file[1].name
    /\ FileIsValid(file) => BagCardinality(pending) < most
    /\ handleFileSelect(file)
    /\ ev' = "select"
    /\ UNCHANGED << session, touchStartPosition, backgroundImage, stageWidth >>

\* loadImageFile resolves: handleFileSelect resumes with applyImageToCanvas
ImageLoaded(files, widths) ==
  \E f \in files, w \in widths :
    /\ BagIn(f.name, pending)
    /\ f.decodes
    /\ pending' = pending (-) SetToBag({ f.name })
    /\ applyImageToCanvas(f.name, w)
    /\ alert' = ""
    /\ ev' = "loaded"
    /\ UNCHANGED << session, touchStartPosition, fileInputValue >>

\* loadImageFile rejects: handleFileSelect resumes in its catch block
ImageError(files) ==
  \E f \in files :
    /\ BagIn(f.name, pending)
    /\ ~f.decodes
    /\ pending' = pending (-) SetToBag({ f.name })
    /\ fileInputValue' = ""
    /\ alert' = "Failed to load image"
    /\ ev' = "loadfailed"
    /\ UNCHANGED << session, touchStartPosition, backgroundImage, stageWidth >>

\* The events as both components receive them: the same click, the same
\* value typed into either reference length input, Reset pressed on both.

BothCanvasClick(points) ==
  \E etype \in StageClickEvents, p \in points :
    /\ \/ currentPathType = "reference"
       \/ Len(measurementPoints) < MaxMeasure
    /\ \/ cached.currentPathType = "reference"
       \/ Len(cached.measurementPoints) < MaxMeasure
    /\ handleCanvasClick(etype, << p >>)
    /\ cached' = cached_handleCanvasClick(cached, etype, << p >>)
    /\ ev' = "click"
    /\ UNCHANGED << touchStartPosition, fileInputValue, backgroundImage,
                    stageWidth, pending, editedAfterCalibration, reads >>

BothInputReferenceLength(values) ==
  /\ InputReferenceLength(values)
  /\ cached' = [cached EXCEPT !.scale.referenceLength = referenceLength']
  /\ editedAfterCalibration' =
       ( editedAfterCalibration \/ Len(cached.referencePoints) = 2 )
  /\ UNCHANGED reads

BothReset ==
  /\ Reset
  /\ cached' = cached_clearCanvas(cached)
  /\ editedAfterCalibration' = FALSE
  /\ UNCHANGED reads

Next ==
  \/ FileSelect(Files, MaxLoads) /\ UNCHANGED variant
  \/ ImageLoaded(Files, ContainerWidths) /\ UNCHANGED variant
  \/ ImageError(Files) /\ UNCHANGED variant
  \/ InputReferenceLength(LengthInputs) /\ UNCHANGED variant
  \/ SelectUnit(ButtonUnits) /\ UNCHANGED variant
  \/ CanvasClick(Points) /\ UNCHANGED variant
  \/ TouchStart(TouchPoints) /\ UNCHANGED variant
  \/ Reset /\ UNCHANGED variant
  \/ Resize(ContainerWidths) /\ UNCHANGED variant

Spec == Init /\ [][Next]_vars

\* The same component in a narrower setting, for the properties of the
\* read-out: one image and an absent or one positive reference length, but
\* a container that changes its width.

ViewFiles == { f \in Files : FileIsValid(<< f >>) /\ f.decodes }

ViewWidths == { 800, 400 }

NextView ==
  \/ FileSelect(ViewFiles, MaxLoads) /\ UNCHANGED variant
  \/ ImageLoaded(ViewFiles, ViewWidths) /\ UNCHANGED variant
  \/ InputReferenceLength(ViewLengths) /\ UNCHANGED variant
  \/ SelectUnit(ButtonUnits) /\ UNCHANGED variant
  \/ CanvasClick(Points) /\ UNCHANGED variant
  \/ Reset /\ UNCHANGED variant
  \/ Resize(ViewWidths) /\ UNCHANGED variant

SpecView == InitWith(ViewWidths) /\ [][NextView]_vars

\* The same component with its read-out read between the events.

\* mutant: the read sums the path with points.splice(1), which takes the
\* points after the first out of the path
ReadCurrentMeasurement_Splices ==
  /\ Len(reads) < MaxReads
  /\ reads' = Append(reads, currentMeasurement)
  /\ measurementPoints' =
       IF Len(measurementPoints) > 1 THEN << measurementPoints[1] >>
       ELSE measurementPoints
  /\ ev' = "read"
  /\ UNCHANGED << currentPathType, currentUnit, referencePoints,
                  referenceLength, touchStartPosition, fileInputValue,
                  backgroundImage, stageWidth, pending, alert, cached,
                  editedAfterCalibration >>

\* the "Measured length" block is read: the template works out
\* currentMeasurementValue, and with it scaleFactor and
\* calculateTotalDistance, which sums over points.slice(1), a copy; nothing
\* is assigned
ReadCurrentMeasurement ==
  /\ Len(reads) < MaxReads
  /\ reads' = Append(reads, currentMeasurement)
  /\ ev' = "read"
  /\ UNCHANGED << session, touchStartPosition, fileInputValue,
                  backgroundImage, stageWidth, pending, alert, cached,
                  editedAfterCalibration >>

\* an event has come: the reads made before it are no longer looked at
AfterEvent ==
  /\ reads' = << >>
  /\ UNCHANGED << cached, editedAfterCalibration >>

NextRead ==
  \/ FileSelect(ViewFiles, MaxLoads) /\ AfterEvent
  \/ ImageLoaded(ViewFiles, ContainerWidths) /\ AfterEvent
  \/ InputReferenceLength(ViewLengths) /\ AfterEvent
  \/ SelectUnit(ButtonUnits) /\ AfterEvent
  \/ CanvasClick(Points) /\ AfterEvent
  \/ Reset /\ AfterEvent
  \/ ReadCurrentMeasurement

SpecRead == Init /\ [][NextRead]_vars

\* The same component under touch input: touches start at two places and
\* end where they started, exactly 5 pixels away, or farther off.

NextTouch ==
  \/ FileSelect(ViewFiles, MaxLoads) /\ UNCHANGED variant
  \/ ImageLoaded(ViewFiles, ContainerWidths) /\ UNCHANGED variant
  \/ InputReferenceLength(ViewLengths) /\ UNCHANGED variant
  \/ CanvasClick(Points) /\ UNCHANGED variant
  \/ TouchStart(TouchStarts) /\ UNCHANGED variant
  \/ Tap(TapPoints) /\ UNCHANGED variant
  \/ Reset /\ UNCHANGED variant

SpecTouch == Init /\ [][NextTouch]_vars

\* The same component with more files to choose from: every accepted type,
\* sizes on both sides of the limit, types that are not accepted.

PickFiles ==
  Files \cup
  { [name |-> "d.png",  type |-> "image/png",     size |-> 2048,     decodes |-> TRUE],
    [name |-> "e.svg",  type |-> "image/svg+xml", size |-> 26214400, decodes |-> TRUE],
    [name |-> "f.webp", type |-> "image/webp",    size |-> 26214401, decodes |-> TRUE] }

NextFiles ==
  \/ FileSelect(PickFiles, MaxDecodes) /\ UNCHANGED variant
  \/ ImageLoaded(PickFiles, ContainerWidths) /\ UNCHANGED variant
  \/ ImageError(PickFiles) /\ UNCHANGED variant
  \/ InputReferenceLength(ViewLengths) /\ UNCHANGED variant
  \/ CanvasClick(PickPoints) /\ UNCHANGED variant

SpecFiles == Init /\ [][NextFiles]_vars

\* The same component with the points and the length of the round trip.

NextRoundTrip ==
  \/ FileSelect(ViewFiles, MaxLoads) /\ UNCHANGED variant
  \/ ImageLoaded(ViewFiles, ContainerWidths) /\ UNCHANGED variant
  \/ InputReferenceLength(RoundTripLengths) /\ UNCHANGED variant
  \/ CanvasClickUpTo(RoundTripPoints, MaxRoundTrip) /\ UNCHANGED variant
  \/ Reset /\ UNCHANGED variant

SpecRoundTrip == Init /\ [][NextRoundTrip]_vars

\* The same component with paths of up to MaxRoundTrip points and a
\* positive or a negative reference length.

NextPath ==
  \/ FileSelect(ViewFiles, MaxLoads) /\ UNCHANGED variant
  \/ ImageLoaded(ViewFiles, ContainerWidths) /\ UNCHANGED variant
  \/ InputReferenceLength(PathLengths) /\ UNCHANGED variant
  \/ CanvasClickUpTo(Points, MaxRoundTrip) /\ UNCHANGED variant
  \/ Reset /\ UNCHANGED variant

SpecPath == Init /\ [][NextPath]_vars

\* The two components side by side, given the same events.

NextVariants ==
  \/ FileSelect(ViewFiles, MaxLoads) /\ UNCHANGED variant
  \/ ImageLoaded(ViewFiles, ContainerWidths) /\ UNCHANGED variant
  \/ BothInputReferenceLength(VariantLengths)
  \/ SelectUnit(unitKeys) /\ UNCHANGED variant
  \/ BothCanvasClick(Points)
  \/ BothReset

SpecVariants == Init /\ [][NextVariants]_vars

TypeOK ==
  /\ currentPathType \in { "reference", "measurement" }
  /\ currentUnit \in unitKeys
  /\ Len(referencePoints) <= 2
  /\ Len(measurementPoints) <= MaxMeasure
  /\ referenceLength \in LengthInputs

\* ------------------------------------------------------------------------
\* Signals
\* ------------------------------------------------------------------------

MissingCalibrationInput == "First, you must supply a reference length."

\* ------------------------------------------------------------------------
\* Properties
\* ------------------------------------------------------------------------

\* C1: in every reachable state the scale factor is defined if and only if
\* there are exactly two reference points and the reference length is
\* present and strictly greater than zero.  (Stated for the states in which
\* the image is loaded and the reference points, if two, are distinct: the
\* claim fails there already.)
C1_ScaleFactorIffPositiveLength ==
  ( /\ backgroundImage = fileInputValue
    /\ pending = EmptyBag
    /\ Len(referencePoints) = 2 => referencePoints[1] # referencePoints[2] )
  => ( (scaleFactor # Null) <=>
         /\ Len(referencePoints) = 2
         /\ referenceLength # Null
         /\ referenceLength[1] > 0 )

\* C2: whenever a measurement is shown, its value is
\* pathLength(measurement points) * (reference length / distance(reference
\* points)) of the current state, to two decimals; in particular right after
\* an edit of the reference length.
C2_DisplayFollowsState ==
  currentMeasurement.kind = "result" =>
    /\ referenceLength # Null
    /\ Len(referencePoints) = 2
    /\ currentMeasurement.value =
         ToFixed2(Product(calculateTotalDistance(measurementPoints),
                          Quotient(F64FromInt(referenceLength[1]),
                                   Hypot(referencePoints[2].x
                                           - referencePoints[1].x,
                                         referencePoints[2].y
                                           - referencePoints[1].y))))

\* a measurement is on display right after the reference length was edited
\* to another positive value, with distinct reference points
C2_Witness ==
  /\ ev = "input"
  /\ currentMeasurement.kind = "result"
  /\ referenceLength = << 20 >>
  /\ referencePoints[1] # referencePoints[2]
  /\ currentMeasurement.value = "26.67"

\* C3: with a positive reference length L and two distinct reference points
\* A, B the scale factor is L / euclidean(A, B), whenever L was supplied.
C3_ScaleFactorValue ==
  ( /\ Len(referencePoints) = 2
    /\ referenceLength # Null
    /\ referenceLength[1] > 0
    /\ referencePoints[1] # referencePoints[2] )
  => /\ scaleFactor # Null
     /\ scaleFactor[1].k = "num"
     /\ scaleFactor[1].s = 1
     /\ scaleFactor[1]
          = Quotient(F64FromInt(referenceLength[1]),
                     Hypot(referencePoints[2].x - referencePoints[1].x,
                           referencePoints[2].y - referencePoints[1].y))

\* the length was supplied after both points were placed
C3_Witness ==
  /\ ev = "input"
  /\ Len(referencePoints) = 2
  /\ referencePoints[1] # referencePoints[2]
  /\ referenceLength # Null
  /\ referenceLength[1] > 0
  /\ scaleFactor # Null

\* C4: a click handled in reference mode while no reference length is set
\* raises MissingCalibrationInput and changes nothing of the session.
C4_MissingLengthClickDiscarded ==
  [][ ( /\ ev' = "click"
        /\ fileInputValue # ""
        /\ currentPathType = "reference"
        /\ ~Truthy(referenceLength) )
      => /\ alert' = MissingCalibrationInput
         /\ UNCHANGED session ]_vars

\* such a click was just discarded, from the initial session
C4_Witness ==
  /\ ev = "click"
  /\ alert = MissingCalibrationInput
  /\ referencePoints = << >>
  /\ referenceLength = Null

\* C5: whenever two reference points are recorded the mode is measurement,
\* and the reference handler, were it called then, would change nothing of
\* the session.
C5_ThirdReferenceClickIsNoOp ==
  Len(referencePoints) = 2 =>
    /\ currentPathType = "measurement"
    /\ \A p \in Points :
         ~ENABLED (handleReferencePoint(p) /\ session' # session)

\* a third click was handled, as a measurement click
C5_Witness ==
  /\ ev = "click"
  /\ Len(referencePoints) = 2
  /\ Len(measurementPoints) = 1

\* C6 as stated: in every reachable state in measurement mode the scale
\* factor is defined.  (Stated for the steps that start in measurement mode
\* with the image loaded, distinct reference points and a positive reference
\* length: the claim fails there already.)
C6_MeasurementModeHasScale ==
  [][ ( /\ currentPathType = "measurement"
        /\ backgroundImage = fileInputValue
        /\ pending = EmptyBag
        /\ Len(referencePoints) = 2
        /\ referencePoints[1] # referencePoints[2]
        /\ referenceLength # Null
        /\ referenceLength[1] > 0
        /\ scaleFactor # Null
        /\ currentPathType' = "measurement" )
      => scaleFactor' # Null ]_vars

\* C6, amended: in measurement mode the scale factor is undefined exactly
\* when the reference length is cleared or zero.
C6_ScaleUndefinedIffNoLength ==
  currentPathType = "measurement" =>
    (scaleFactor = Null <=> ~Truthy(referenceLength))

\* a measurement click was ignored because the length had been cleared
C6_Witness ==
  /\ ev = "click"
  /\ currentPathType = "measurement"
  /\ fileInputValue # ""
  /\ referenceLength = Null
  /\ scaleFactor = Null

\* C7: after reset() the measurement read-out is the hint
\* SetReferenceLength.
C7_ResetShowsSetReferenceLength ==
  ev = "reset" => currentMeasurement = SetReferenceLength

\* reset was pressed with an image on the canvas
C7_Witness ==
  /\ ev = "reset"
  /\ backgroundImage # ""
  /\ currentMeasurement = SetReferenceLength

\* C8 as stated: reset() yields the initial session, the unit `in` included.
C8_ResetYieldsInitialSession ==
  ev = "reset" =>
    /\ referencePoints = << >>
    /\ measurementPoints = << >>
    /\ referenceLength = Null
    /\ currentUnit = "in"
    /\ currentPathType = "reference"

\* C8, amended: reset() empties both point lists, clears the reference
\* length, sets the mode to reference and keeps the selected unit.
C8_ResetKeepsUnit ==
  [][ ev' = "reset" =>
        /\ referencePoints' = << >>
        /\ measurementPoints' = << >>
        /\ referenceLength' = Null
        /\ currentPathType' = "reference"
        /\ currentUnit' = currentUnit ]_vars

\* reset was pressed while another unit than `in` was selected
C8_Witness ==
  /\ ev = "reset"
  /\ currentUnit = "cm"
  /\ referencePoints = << >>
  /\ referenceLength = Null

\* C9: a click that arrives while the selected file is still being decoded
\* (or after its decode failed) changes nothing of the session.  (Stated for
\* the sessions whose reference length is absent or positive: the claim
\* fails there already.)
C9_NoClickBeforeImageLoaded ==
  [][ ( /\ ev' = "click"
        /\ referenceLength = Null \/ referenceLength[1] > 0
        /\ \/ BagIn(fileInputValue, pending)
           \/ fileInputValue = "" )
      => UNCHANGED session ]_vars

\* C10: after a successful image load both point lists are empty, the
\* reference length is absent and the mode is reference.  (Stated for the
\* sessions whose reference length is absent or positive: the claim fails
\* there already.)
C10_ImageLoadResetsSession ==
  ( /\ ev = "loaded"
    /\ referenceLength = Null \/ referenceLength[1] > 0 )
  => /\ referencePoints = << >>
     /\ measurementPoints = << >>
     /\ referenceLength = Null
     /\ currentPathType = "reference"

\* C11: the read-out is a result (the length to two decimals and the label
\* of the selected unit) if and only if the scale factor is defined and the
\* measurement path has at least two points; otherwise it is exactly one of
\* the hints SetReferenceLength, AddReferencePoints, AddMeasurementPoints.
\* (Stated for the states in which the image is loaded and the reference
\* length is absent or positive: the claim fails there already.)
C11_ResultIffScaleAndPath ==
  ( /\ backgroundImage # ""
    /\ backgroundImage = fileInputValue
    /\ pending = EmptyBag
    /\ referenceLength = Null \/ referenceLength[1] > 0 )
  => LET m == currentMeasurement
         digit == { "0", "1", "2", "3", "4", "5", "6", "7", "8", "9" }
     IN  /\ (m.kind = "result") <=>
              (scaleFactor # Null /\ Len(measurementPoints) >= 2)
         /\ m.kind = "result" =>
              /\ m.label = UNIT_LABELS[currentUnit]
              /\ LET n == Len(m.value)
                 IN  /\ n >= 4
                     /\ SubSeq(m.value, n - 2, n - 2) = "."
                     /\ \A i \in (1 .. n) \ { n - 2 } :
                          SubSeq(m.value, i, i) \in digit
         /\ m.kind # "result" =>
              m \in { SetReferenceLength, AddReferencePoints,
                      AddMeasurementPoints }

\* C12: choosing a unit changes the unit label of the read-out and nothing
\* else: scale factor, measured value, both point lists, reference length
\* and mode are as before (no conversion between units).
C12_UnitChangesLabelOnly ==
  [][ ev' = "unit" =>
        /\ UNCHANGED << referencePoints, measurementPoints, referenceLength,
                        currentPathType >>
        /\ \E sf \in { scaleFactor }, sf2 \in { scaleFactor' } :
             /\ sf2 = sf
             /\ \E number \in { MeasurementNumberOf(sf, measurementPoints) },
                   number2 \in { MeasurementNumberOf(sf2, measurementPoints') } :
                  /\ number2 = number
                  /\ \E before \in { MeasuredLengthOf(FixedOf(number),
                                                       currentUnit,
                                                       referenceLength,
                                                       referencePoints) },
                        after \in { MeasuredLengthOf(FixedOf(number2),
                                                      currentUnit',
                                                      referenceLength',
                                                      referencePoints') } :
                       /\ after.kind = before.kind
                       /\ before.kind = "hint" => after = before
                       /\ before.kind = "result" =>
                            /\ after.value = before.value
                            /\ after.label = UNIT_LABELS[currentUnit'] ]_vars

\* centimetres were chosen while a measurement was on display
C12_Witness ==
  /\ ev = "unit"
  /\ currentUnit = "cm"
  /\ currentMeasurement.kind = "result"
  /\ currentMeasurement.value = "13.33"
  /\ currentMeasurement.label = "centimeters"

\* C13: an edit of the reference length to zero or a negative value is
\* ignored: the stored length, the scale factor and the read-out are as
\* before.  (Stated for the edits made while a measurement is on display,
\* with the image loaded and distinct reference points: the claim fails
\* there already.)
C13_NonPositiveLengthIgnored ==
  [][ ( /\ ev' = "input"
        /\ referenceLength' # Null
        /\ referenceLength'[1] <= 0
        /\ backgroundImage = fileInputValue
        /\ pending = EmptyBag
        /\ referenceLength # Null
        /\ referenceLength[1] > 0
        /\ Len(referencePoints) = 2
        /\ referencePoints[1] # referencePoints[2]
        /\ Len(measurementPoints) = 2 )
      => /\ referenceLength' = referenceLength
         /\ scaleFactor' = scaleFactor
         /\ currentMeasurement' = currentMeasurement ]_vars

\* a click somewhere on the canvas would now be recorded
AcceptsClick ==
  \E p \in Points :
    ENABLED (handleCanvasClick("click", << p >>) /\ session' # session)

\* C14: an error (a file rejected, a decode failed, a click refused for want
\* of a reference length) leaves the session as it is, and a click that
\* would have been recorded before the error is still recorded after it.
\* (Stated for the errors met with the image loaded and an absent or
\* positive reference length: the claim fails there already.)
C14_SessionUsableAfterError ==
  [][ ( /\ alert' \in { "File too large (max 25MB)", "Failed to load image",
                        MissingCalibrationInput }
        /\ backgroundImage = fileInputValue
        /\ pending = EmptyBag
        /\ referenceLength = Null \/ referenceLength[1] > 0 )
      => /\ UNCHANGED session
         /\ AcceptsClick => AcceptsClick' ]_vars

\* C15: a tap that ends within 5 pixels (inclusive) of where its touch
\* started is handled as a click, so it is recorded wherever a click at
\* that position would be; a tap that moved farther records nothing.
\* (Stated with the image loaded and an absent or positive reference
\* length: the claim fails there already.)
C15_TapWithin5pxIsClick ==
  \A p \in TapPoints :
    ( /\ backgroundImage = fileInputValue
      /\ pending = EmptyBag
      /\ referenceLength = Null \/ referenceLength[1] > 0 )
    => IF ~F64Less(F64FromInt(5),
                   Hypot(p.x - touchStartPosition.x,
                         p.y - touchStartPosition.y))
       THEN ENABLED (handleCanvasClick("click", << p >>) /\ session' # session)
              => ENABLED (StageTap(p) /\ session' # session)
       ELSE ~ENABLED (StageTap(p) /\ session' # session)

\* C16: a selected file goes to decoding if and only if its type is
\* image/jpeg, image/png or image/webp and its size is at most 26214400
\* bytes; any other file is rejected with a message, the file input is
\* emptied and no decode starts; the session is unchanged either way.
C16_FileAcceptedIffTypeAndSize ==
  [][ \A f \in PickFiles :
        ( /\ ev' = "select"
          /\ fileInputValue # f.name
          /\ handleFileSelect(<< f >>) )
        => /\ UNCHANGED session
           /\ IF /\ f.type \in { "image/jpeg", "image/png", "image/webp" }
                 /\ f.size <= 26214400
              THEN /\ pending' = pending (+) SetToBag({ f.name })
                   /\ fileInputValue' = f.name
                   /\ alert' = ""
              ELSE /\ alert' # ""
                   /\ fileInputValue' = ""
                   /\ pending' = pending ]_vars

\* a file was rejected after one of exactly the maximum size had been
\* accepted and decoded, with a point already on the canvas
C16_Witness ==
  /\ ev = "select"
  /\ alert = "File too large (max 25MB)"
  /\ fileInputValue = ""
  /\ backgroundImage = "a.jpg"
  /\ Len(referencePoints) = 1

\* C17: the reference point list never holds more than two points, and once
\* it holds two, no event but reset() changes it.
C17_ReferenceListLockedAtTwo ==
  [][ /\ Len(referencePoints') <= 2
      /\ ( Len(referencePoints) = 2 /\ ev' # "reset" )
           => referencePoints' = referencePoints ]_vars

\* with two reference points placed, the path was measured and the
\* reference length then edited
C17_Witness ==
  /\ ev = "input"
  /\ Len(referencePoints) = 2
  /\ Len(measurementPoints) = 2
  /\ referenceLength = << 20 >>

\* C18: a window resize changes the layout only: both point lists with
\* every coordinate, the reference length, the unit, the mode, the scale
\* factor and the measured value are as before.
C18_ResizeChangesLayoutOnly ==
  [][ ev' = "resize" =>
        /\ UNCHANGED << referencePoints, measurementPoints, referenceLength,
                        currentUnit, currentPathType >>
        /\ \E sf \in { scaleFactor }, sf2 \in { scaleFactor' },
              mp2 \in { measurementPoints' } :
             /\ sf2 = sf
             /\ MeasurementValueOf(sf2, mp2)
                  = MeasurementValueOf(sf, measurementPoints) ]_vars

\* the container shrank to 400 pixels while a measurement was on display
C18_Witness ==
  /\ ev = "resize"
  /\ stageWidth = 400
  /\ backgroundImage # ""
  /\ currentMeasurement.kind = "result"
  /\ currentMeasurement.value = "13.33"

\* C19: the pixel length of a path is 0 for fewer than two points and grows
\* with each further point by the Euclidean distance from the point before;
\* a measurement on display is that length times reference length over
\* reference distance, to two decimals; and reference points (0,0), (100,0)
\* with length 10 and unit `in`, followed by the path (0,0), (50,0), (50,50),
\* read 10.00 inches.
C19_RoundTrip ==
  LET mp == measurementPoints
      n == Len(mp)
      total == calculateTotalDistance(mp)
      m == currentMeasurement
  IN  /\ n < 2 => total = F64Zero
      /\ n >= 2 =>
           total = F64Add(calculateTotalDistance(SubSeq(mp, 1, n - 1)),
                          Hypot(mp[n].x - mp[n - 1].x, mp[n].y - mp[n - 1].y))
      /\ ( m.kind = "result" /\ referencePoints[1] # referencePoints[2] ) =>
           m.value = ToFixed2(Product(total, scaleFactor[1]))
      /\ ( /\ referencePoints = << [x |-> 0, y |-> 0], [x |-> 100, y |-> 0] >>
           /\ referenceLength = << 10 >>
           /\ currentUnit = "in"
           /\ mp = << [x |-> 0, y |-> 0], [x |-> 50, y |-> 0],
                      [x |-> 50, y |-> 50] >> )
           => m = [kind |-> "result", value |-> "10.00", label |-> "inches"]

\* the third click of the round trip has just been recorded
C19_Witness ==
  /\ ev = "click"
  /\ backgroundImage = "a.jpg"
  /\ referencePoints = << [x |-> 0, y |-> 0], [x |-> 100, y |-> 0] >>
  /\ referenceLength = << 10 >>
  /\ currentUnit = "in"
  /\ measurementPoints = << [x |-> 0, y |-> 0], [x |-> 50, y |-> 0],
                            [x |-> 50, y |-> 50] >>
  /\ currentMeasurement.value = "10.00"

\* C20: a read of the measurement is pure: however many reads are made
\* with no event between them, each shows the same value as the first of
\* them, and a read leaves every session variable (mode, unit, both point
\* lists, reference length) as it was.
C20_ReadIsPure ==
  [][ ev' = "read" =>
        /\ session' = session
        /\ \A i \in DOMAIN reads' : reads'[i] = reads'[1] ]_vars

\* the measurement on display has been read twice with no event between
C20_Witness ==
  /\ ev = "read"
  /\ Len(reads) = 2
  /\ Len(measurementPoints) = 2
  /\ reads[2] = [kind |-> "result", value |-> "13.33", label |-> "inches"]

\* C21: an edit of the reference length made while no image has been loaded
\* (none chosen, none decoding, none on the canvas) is a no-op: the stored
\* length stays absent and the read-out stays SetReferenceLength.  (Stated
\* for an edit to a positive value: the claim fails there already.)
C21_LengthEditNeedsImage ==
  [][ ( /\ ev' = "input"
        /\ backgroundImage = ""
        /\ fileInputValue = ""
        /\ pending = EmptyBag
        /\ referenceLength = Null
        /\ referenceLength' # Null
        /\ referenceLength'[1] > 0 )
      => /\ referenceLength' = Null
         /\ \E rl2 \in { referenceLength' }, rp2 \in { referencePoints' } :
              MeasuredLengthOf(Null, currentUnit, rl2, rp2)
                = SetReferenceLength ]_vars

\* C22: a reference length entered while fewer than two reference points
\* exist is stored and leaves the scale factor undefined and the mode
\* `reference`; the click that records the second reference point makes the
\* scale factor defined from the length stored before and switches the mode
\* to `measurement` in the same step; the first reference click does not
\* change the mode.
C22_LengthTakesEffectAtSecondPoint ==
  [][ /\ ( ev' = "input" /\ Len(referencePoints) < 2 ) =>
           /\ referenceLength' # referenceLength
           /\ scaleFactor' = Null
           /\ currentPathType' = "reference"
      /\ ( /\ ev' = "click"
           /\ Len(referencePoints) = 1
           /\ Len(referencePoints') = 2 ) =>
           /\ scaleFactor = Null
           /\ referenceLength' = referenceLength
           /\ scaleFactor' = ScaleFactorOf(referencePoints', referenceLength)
           /\ scaleFactor' # Null
           /\ currentPathType = "reference"
           /\ currentPathType' = "measurement"
      /\ ( /\ ev' = "click"
           /\ Len(referencePoints) = 0 ) =>
           currentPathType' = "reference" ]_vars

\* the second reference click has just switched the mode, the length having
\* been entered before any point
C22_Witness ==
  /\ ev = "click"
  /\ Len(referencePoints) = 2
  /\ referencePoints[1] # referencePoints[2]
  /\ measurementPoints = << >>
  /\ referenceLength = << 10 >>
  /\ scaleFactor # Null
  /\ currentPathType = "measurement"

\* C23 as stated: the session moves AwaitingReference -> AwaitingCalibration
\* -> Measuring, or back to AwaitingReference by reset(): only reset() takes
\* it out of Measuring, and Measuring is entered only from
\* AwaitingCalibration.  (Stated for the steps taken with the image loaded
\* and an absent or positive reference length: the claim fails there
\* already.)
C23_ForwardOnly ==
  [][ LET stateOf(refPts, sf) ==
            IF Len(refPts) < 2 THEN "AwaitingReference"
            ELSE IF sf = Null THEN "AwaitingCalibration" ELSE "Measuring"
          from == stateOf(referencePoints, scaleFactor)
          to == stateOf(referencePoints', scaleFactor')
      IN  ( /\ backgroundImage = fileInputValue
            /\ pending = EmptyBag
            /\ referenceLength = Null \/ referenceLength[1] > 0 )
          => /\ ( from = "Measuring" /\ ev' # "reset" ) => to = "Measuring"
             /\ ( from # "Measuring" /\ to = "Measuring" )
                  => from = "AwaitingCalibration" ]_vars

\* C23, amended: Measuring is entered from AwaitingReference, by the second
\* reference click, or from AwaitingCalibration, by an edit of the reference
\* length; it is left by reset(), for AwaitingReference, or by an edit that
\* clears or zeroes the reference length, for AwaitingCalibration;
\* AwaitingCalibration is entered from Measuring only, and only reset()
\* leads back to AwaitingReference.  (The state is determined by the
\* reference points and the reference length; the steps that change
\* neither are passed over.)
C23_SessionStateSteps ==
  [][ LET stateOf(refPts, sf) ==
            IF Len(refPts) < 2 THEN "AwaitingReference"
            ELSE IF sf = Null THEN "AwaitingCalibration" ELSE "Measuring"
      IN  ( referencePoints' # referencePoints
            \/ referenceLength' # referenceLength ) =>
          \E from \in { stateOf(referencePoints, scaleFactor) },
             rp2 \in { referencePoints' }, rl2 \in { referenceLength' } :
          \E to \in { stateOf(rp2, ScaleFactorOf(rp2, rl2)) } :
          from # to =>
            \/ /\ from = "AwaitingReference"
               /\ to = "Measuring"
               /\ ev' = "click"
               /\ Len(referencePoints) = 1
            \/ /\ from = "AwaitingCalibration"
               /\ to = "Measuring"
               /\ ev' = "input"
               /\ Truthy(referenceLength')
            \/ /\ from = "Measuring"
               /\ to = "AwaitingCalibration"
               /\ ev' = "input"
               /\ ~Truthy(referenceLength')
            \/ /\ from # "AwaitingReference"
               /\ to = "AwaitingReference"
               /\ ev' = "reset" ]_vars

\* an edit has just cleared the reference length of a calibrated session
\* with a measured path: AwaitingCalibration, entered from Measuring
C23_Witness ==
  /\ ev = "input"
  /\ Len(referencePoints) = 2
  /\ Len(measurementPoints) = 2
  /\ referenceLength = Null
  /\ currentPathType = "measurement"

\* C24: a click handled in measurement mode with the scale factor defined
\* appends exactly one point, the clicked one, to the end of the
\* measurement path; the points recorded before keep their values and
\* their order, and reference points, reference length, unit and mode are
\* unchanged.
C24_MeasurementClickAppendsOnePoint ==
  [][ ( /\ ev' = "click"
        /\ fileInputValue # ""
        /\ currentPathType = "measurement"
        /\ scaleFactor # Null )
      => /\ Len(measurementPoints') = Len(measurementPoints) + 1
         /\ SubSeq(measurementPoints', 1, Len(measurementPoints))
              = measurementPoints
         /\ measurementPoints'[Len(measurementPoints')] \in Points
         /\ UNCHANGED << referencePoints, referenceLength, currentUnit,
                         currentPathType >> ]_vars

\* a second, different point has just been appended to the path
C24_Witness ==
  /\ ev = "click"
  /\ currentPathType = "measurement"
  /\ Len(measurementPoints) = 2
  /\ measurementPoints[1] # measurementPoints[2]
  /\ referenceLength = << 20 >>
  /\ currentUnit = "cm"

\* C25: when no result is shown, the hint is SetReferenceLength iff no
\* non-zero reference length is set, AddReferencePoints iff one is set and
\* fewer than two reference points exist, AddMeasurementPoints iff one is
\* set and two reference points exist; and the action the hint names is one
\* the session accepts next: a click then records a reference point, or a
\* measurement point.  (Stated for an absent or positive reference length:
\* the claim fails there already.)
C25_HintNamesAcceptedAction ==
  LET m == currentMeasurement
  IN  ( /\ m.kind = "hint"
        /\ referenceLength = Null \/ referenceLength[1] > 0 )
      => /\ m = SetReferenceLength <=> ~Truthy(referenceLength)
         /\ m = AddReferencePoints <=>
              ( Truthy(referenceLength) /\ Len(referencePoints) < 2 )
         /\ m = AddMeasurementPoints <=>
              ( Truthy(referenceLength) /\ Len(referencePoints) = 2 )
         /\ m = AddReferencePoints =>
              \E p \in Points :
                ENABLED ( /\ handleCanvasClick("click", << p >>)
                          /\ referencePoints' = Append(referencePoints, p) )
         /\ m = AddMeasurementPoints =>
              \E p \in Points :
                ENABLED ( /\ handleCanvasClick("click", << p >>)
                          /\ measurementPoints'
                               = Append(measurementPoints, p) )

\* C27: in every reachable state the click mode is "measurement" if and
\* only if there are exactly two reference points.
C27_MeasurementModeIffTwoPoints ==
  currentPathType = "measurement" <=> Len(referencePoints) = 2

\* the second reference point has just been recorded and the mode has
\* switched with it; nothing is measured yet
C27_Witness ==
  /\ ev = "click"
  /\ currentPathType = "measurement"
  /\ Len(referencePoints) = 2
  /\ measurementPoints = << >>
  /\ referenceLength = << 20 >>
  /\ currentUnit = "cm"

\* C28: whenever the measurement path is not empty there are exactly two
\* reference points, and a reset leaves no measurement point (and no
\* reference point) behind.
C28_MeasurementPathNeedsReference ==
  /\ [] ( measurementPoints # << >> => Len(referencePoints) = 2 )
  /\ [][ ev' = "reset" =>
            /\ measurementPoints' = << >>
            /\ referencePoints' = << >> ]_vars

\* a measured path next to its two reference points, the unit switched
\* since
C28_Witness ==
  /\ ev = "unit"
  /\ Len(measurementPoints) = 2
  /\ Len(referencePoints) = 2
  /\ currentUnit = "cm"

\* C30: once no decode is outstanding, the background image is that of the
\* file selected last (the one the file input holds), whatever the order
\* in which the decodes completed; and the continuation of a decode, be it
\* a success or a failure, leaves point lists, reference length and mode
\* as the clicks handled in between have made them.
C30_LastSelectedFileWins ==
  /\ [] ( ( pending = EmptyBag /\ fileInputValue # "" )
            => backgroundImage = fileInputValue )
  /\ [][ ev' \in { "loaded", "loadfailed" } =>
            UNCHANGED << referencePoints, measurementPoints,
                         referenceLength, currentPathType >> ]_vars

\* C29: with the image loaded, a usable calibration (two different
\* reference points, a reference length) and a result on display, a click
\* that adds a measurement point and leaves reference points and reference
\* length as they are does not make the measured length smaller.
C29_PathNeverShortens ==
  [][ ( /\ ev' = "click"
        /\ fileInputValue # ""
        /\ backgroundImage = fileInputValue
        /\ pending = EmptyBag
        /\ Len(referencePoints) = 2
        /\ referencePoints[1] # referencePoints[2]
        /\ currentMeasurementNumber # Null
        /\ measurementPoints' # measurementPoints
        /\ UNCHANGED << referencePoints, referenceLength >> )
      => \E before \in { currentMeasurementNumber },
            path \in { measurementPoints' } :
           \E after \in { MeasurementNumberOf(scaleFactor, path) } :
             /\ after # Null
             /\ ~F64Less(after[1], before[1]) ]_vars

\* C26: the component that stores the scale factor at the second reference
\* click and the measured value at each measurement click, and the one
\* that derives both from the current state, can show different
\* measurements (the witness); as long as the reference length has not
\* been edited after the second reference click they agree on the mode,
\* on both point lists and on what the measured-length block shows.
C26_VariantsAgreeWithoutLateEdit ==
  ~editedAfterCalibration =>
    /\ cached.currentPathType = currentPathType
    /\ cached.referencePoints = referencePoints
    /\ cached.measurementPoints = measurementPoints
    /\ cached_TotalLength = currentMeasurement

\* the reference length was changed from 10 to 20 after calibration: same
\* points in both components, but the stored value is half the derived one
C26_Witness ==
  /\ editedAfterCalibration
  /\ cached.referencePoints = referencePoints
  /\ cached.measurementPoints = measurementPoints
  /\ cached_TotalLength.kind = "result"
  /\ currentMeasurement.kind = "result"
  /\ cached_TotalLength.value = "13.33"
  /\ currentMeasurement.value = "26.67"

====
